---- MODULE Spec2Model ----
(***************************************************************************)
(* Job portal client: the application form (ApplicationForm.tsx), the      *)
(* "my applications" page (applications/page.tsx) and the job card         *)
(* (JobCard.tsx), modelled as event-driven state machines.  Strings are    *)
(* sequences of one-character strings; an optional value is the empty      *)
(* sequence (absent) or a one-element sequence.                            *)
(***************************************************************************)
EXTENDS Integers, Sequences, FiniteSets, TLC

\* ------------------------------------------------------------------ bounds
MaxEmailLen == 5
MaxNameLen == 2
MaxPhoneLen == 1
MaxSubmits == 2
MaxApps == 2
MaxQueryLen == 2
MaxToggles == 2

\* ----------------------------------------------------------------- strings
Space == " "
EmailChars == {Space, "a", "@", "."}
NameChars == {Space, "a"}

StringsUpTo(chars, n) == UNION {[1..k -> chars] : k \in 0..n}

\* String.prototype.trim, as two passes over the sequence.
RECURSIVE TrimStart(_)
TrimStart(s) ==
    IF s = <<>> THEN s
    ELSE IF Head(s) = Space THEN TrimStart(Tail(s)) ELSE s

RECURSIVE TrimEnd(_)
TrimEnd(s) ==
    IF s = <<>> THEN s
    ELSE IF s[Len(s)] = Space THEN TrimEnd(SubSeq(s, 1, Len(s) - 1)) ELSE s

Trim(s) == TrimEnd(TrimStart(s))

\* The positions at which a run \S+ that starts at position i can end
\* (exclusive), as a backtracking matcher would try them.
NonSpaceRunEnds(s, i) ==
    {j \in (i + 1)..(Len(s) + 1) : \A k \in i..(j - 1) : s[k] # Space}

\* /\S+@\S+\.\S+/ matched with the run \S+ starting at position i.
EmailRegexMatchAt(s, i) ==
    \E j \in NonSpaceRunEnds(s, i) :
        /\ j <= Len(s)
        /\ s[j] = "@"
        /\ \E k \in NonSpaceRunEnds(s, j + 1) :
              /\ k <= Len(s)
              /\ s[k] = "."
              /\ NonSpaceRunEnds(s, k + 1) # {}

\* /\S+@\S+\.\S+/.test(s): an unanchored search.
EmailRegexTest(s) == \E i \in 1..Len(s) : EmailRegexMatchAt(s, i)

\* ---------------------------------------------------------------- messages
Msg(text) == [text |-> text, status |-> 0]
StatusMsg(text, status) == [text |-> text, status |-> status]

FullNameRequired == Msg("Full name is required")
EmailRequired == Msg("Email is required")
EmailInvalid == Msg("Email is invalid")
PhoneRequired == Msg("Phone number is required")
ResumeRequired == Msg("Resume is required")
JobIdMissing == Msg("Job ID is missing. Please try again or contact support.")

NoErrors == <<>>

\* delete newErrors[name]
DeleteKey(errs, name) == [k \in (DOMAIN errs) \ {name} |-> errs[k]]

\* { ...prev, [name]: value }
SetKey(errs, name, value) ==
    [k \in (DOMAIN errs) \cup {name} |-> IF k = name THEN value ELSE errs[k]]

\* -------------------------------------------------------------- validation
FullNameErrors(form) ==
    IF Trim(form.fullName) = <<>> THEN [fullName |-> FullNameRequired]
    ELSE NoErrors

EmailErrors(form) ==
    IF Trim(form.email) = <<>> THEN [email |-> EmailRequired]
    ELSE IF ~EmailRegexTest(form.email) THEN [email |-> EmailInvalid]
    ELSE NoErrors

PhoneErrors(form) ==
    IF Trim(form.phone) = <<>> THEN [phone |-> PhoneRequired]
    ELSE NoErrors

ResumeErrors(form) ==
    IF form.resume = <<>> THEN [resume |-> ResumeRequired]
    ELSE NoErrors

\* validateForm short-circuiting at the first failing field.
ValidateFormShortCircuit(form) ==
    LET newErrors ==
            IF FullNameErrors(form) # NoErrors THEN FullNameErrors(form)
            ELSE IF EmailErrors(form) # NoErrors THEN EmailErrors(form)
            ELSE IF PhoneErrors(form) # NoErrors THEN PhoneErrors(form)
            ELSE ResumeErrors(form)
    IN  [errors |-> newErrors, ok |-> (DOMAIN newErrors = {})]

\* validateForm: the errors map it stores and the boolean it returns.
ValidateForm(form) ==
    LET newErrors ==
            FullNameErrors(form) @@ EmailErrors(form)
                @@ PhoneErrors(form) @@ ResumeErrors(form)
    IN  [errors |-> newErrors, ok |-> (DOMAIN newErrors = {})]

\* ------------------------------------------------------------------- state
VARIABLES
    \* ApplicationForm: props and component state
    job, onSuccess, formData, errors, isSubmitting, resumeFileName,
    \* ApplicationForm: the handleSubmit invocations that are suspended at an
    \* await, the record of the most recent finished one, the number of
    \* submit events handled and the value validateForm last returned
    handlers, last, nSubmits, validateResult

formVars == <<job, onSuccess, formData, errors, isSubmitting, resumeFileName,
              handlers, last, nSubmits, validateResult>>

VARIABLES
    \* ApplicationsPage: what isAuthenticated() and getAuthToken() return
    authenticated, token,
    \* ApplicationsPage: component state
    applications, isLoading, error,
    \* ApplicationsPage: where the effect's fetchApplications stands, the
    \* requests it has sent, how its fetch settled, the route pushed and the
    \* messages of the errors written to the console
    vpc, vRequests, vSettled, vPushed, vLogged

viewerVars == <<authenticated, token, applications, isLoading, error,
                vpc, vRequests, vSettled, vPushed, vLogged>>

VARIABLES
    \* ApplicationsPage: the status filter and the search query
    activeFilter, searchQuery

filterVars == <<activeFilter, searchQuery>>

VARIABLES
    \* JobCard: component state
    isSaved, isSaving, isUserLoggedIn,
    \* JobCard: environment (isAuthenticated(), the saved jobs the backend
    \* holds for the user, window.location.href, console.error)
    loggedIn, savedStore, location, cLogged,
    \* JobCard: position of the component, the mount-time check in flight,
    \* the handleSaveJob invocation in flight
    cpc, savedCheck, toggle,
    \* JobCard: number of toggles so far, outcome of the last successful one
    nToggles, lastToggle

cardVars == <<isSaved, isSaving, isUserLoggedIn, loggedIn, savedStore,
              location, cLogged, cpc, savedCheck, toggle, nToggles,
          lastToggle>>

vars == <<job, onSuccess, formData, errors, isSubmitting, resumeFileName,
          handlers, last, nSubmits, validateResult,
          authenticated, token, applications, isLoading, error,
          vpc, vRequests, vSettled, vPushed, vLogged,
          activeFilter, searchQuery,
          isSaved, isSaving, isUserLoggedIn, loggedIn, savedStore,
          location, cLogged, cpc, savedCheck, toggle, nToggles,
          lastToggle>>

\* ------------------------------------------------------ form: input values
EmptyForm ==
    [fullName |-> <<>>, email |-> <<>>, phone |-> <<>>, resume |-> <<>>,
     coverLetter |-> <<>>]

\* Values the user types into the text inputs of the workflow.
TypedValues(name) ==
    CASE name = "fullName" -> {<<>>, <<"a">>}
      [] name = "email" -> {<<>>, <<"a", "@">>, <<"a", "@", "a", ".", "a">>}
      [] name = "phone" -> {<<>>, <<"a">>}
      [] name = "coverLetter" -> {<<>>, <<"a">>}

TextInputs == {"fullName", "email", "phone", "coverLetter"}
ChosenFiles == {<<"c", "v">>}
JobIds == {"", "j1"}

\* ------------------------------------------------------ network: responses
PrimaryEndpoint == "/api/applications"
FallbackEndpoint == "/api/test-application"

Statuses == {201, 404, 500}
\* response.ok
Ok(status) == status \in 200..299

\* The content-type header: absent, or a string given by its segments.
ContentTypes ==
    {<<>>, <<<<"text/html">>>>, <<<<"application/json">>>>,
     <<<<"application/json", "; charset=utf-8">>>>}

\* !contentType || !contentType.includes('application/json') is false
IsJsonContentType(ct) ==
    /\ ct # <<>>
    /\ \E n \in 1..Len(ct[1]) : ct[1][n] = "application/json"

ErrorFields == {<<>>, <<"">>, <<"E">>}
ApplicationFields ==
    {<<>>, <<[id |-> <<>>]>>, <<[id |-> <<"">>]>>, <<[id |-> <<"x1">>]>>}

\* A response body: text that is not JSON, the JSON value null, or a JSON
\* object with optional fields `error` and `application`.
WriteBodies ==
    {[kind |-> k, error |-> <<>>, application |-> <<>>] :
        k \in {"unparsable", "null"}}
    \cup {[kind |-> "object", error |-> e, application |-> a] :
            e \in ErrorFields, a \in ApplicationFields}

WriteResponses ==
    [status : Statuses, contentType : ContentTypes, body : WriteBodies]

\* Messages of the error a rejected fetch carries.
TransportErrors == {Msg(""), Msg("Failed to fetch")}

\* ---------------------------------------------- handleSubmit: the response
\* JSON.stringify({ jobId: job.id, ...formData })
Payload(jobId, form) == [jobId |-> jobId] @@ form

\* data && data.error, as the message of the thrown Error
HasErrorText(body) ==
    /\ body.kind = "object"
    /\ body.error # <<>>
    /\ body.error[1] # ""

\* The shape check without the test of the id's emptiness.
HasApplicationIdField(body) ==
    /\ body.kind = "object"
    /\ body.application # <<>>
    /\ body.application[1].id # <<>>

\* !data || !data.application || !data.application.id is false
HasApplicationId(body) ==
    /\ body.kind = "object"
    /\ body.application # <<>>
    /\ body.application[1].id # <<>>
    /\ body.application[1].id[1] # ""

NonJsonResponse(status) ==
    StatusMsg("Server returned non-JSON response. Please check server logs.",
              status)
ParseFailed == Msg("Failed to parse server response. Please try again.")
ServerReturnedError(status) == StatusMsg("Server returned error", status)
InvalidData == Msg("Server returned invalid data. Please try again.")
SubmitFailed == Msg("Failed to submit application. Please try again.")

Thrown(check, msg, jsonCalled) ==
    [check |-> check, error |-> <<msg>>, jsonCalled |-> jsonCalled,
     id |-> <<>>]

\* The checks with the HTTP status tested before the content type.
SubmitterCheckStatusFirst(resp) ==
    IF ~Ok(resp.status)
    THEN Thrown("status", ServerReturnedError(resp.status), FALSE)
    ELSE IF ~IsJsonContentType(resp.contentType)
    THEN Thrown("contentType", NonJsonResponse(resp.status), FALSE)
    ELSE IF resp.body.kind = "unparsable"
    THEN Thrown("parse", ParseFailed, TRUE)
    ELSE IF ~HasApplicationId(resp.body)
    THEN Thrown("shape", InvalidData, TRUE)
    ELSE [check |-> "none", error |-> <<>>, jsonCalled |-> TRUE,
          id |-> resp.body.application[1].id]

\* Lines 149-181 of handleSubmit: the checks made on the response, in the
\* code's order.  check names the first failing check, error is the thrown
\* Error, jsonCalled tells whether response.json() was called.
SubmitterCheck(resp) ==
    IF ~IsJsonContentType(resp.contentType)
    THEN Thrown("contentType", NonJsonResponse(resp.status), FALSE)
    ELSE IF resp.body.kind = "unparsable"
    THEN Thrown("parse", ParseFailed, TRUE)
    ELSE IF ~Ok(resp.status)
    THEN Thrown("status",
                IF HasErrorText(resp.body) THEN Msg(resp.body.error[1])
                ELSE ServerReturnedError(resp.status),
                TRUE)
    ELSE IF ~HasApplicationId(resp.body)
    THEN Thrown("shape", InvalidData, TRUE)
    ELSE [check |-> "none", error |-> <<>>, jsonCalled |-> TRUE,
          id |-> resp.body.application[1].id]

\* error.message, without the default text
SubmitMessageRaw(e) == e

\* error.message || 'Failed to submit application. Please try again.'
SubmitMessage(e) == IF e.text = "" THEN SubmitFailed ELSE e

\* Lines 183-196: what handleSubmit does with a valid response.
Effect(kind, id, jobId, testMode) ==
    [kind |-> kind, id |-> id, jobId |-> jobId, testMode |-> testMode]

\* The success path with the notice shown after completion is signalled.
SuccessEffectsNoticeLast(h, id) ==
    (IF onSuccess THEN <<Effect("onSuccess", id, "", FALSE)>>
     ELSE <<Effect("router.push", id, h.jobId, h.usedFallback)>>)
    \o (IF h.usedFallback THEN <<Effect("alert", "", "", TRUE)>> ELSE <<>>)

SuccessEffects(h, id) ==
    (IF h.usedFallback THEN <<Effect("alert", "", "", TRUE)>> ELSE <<>>)
    \o (IF onSuccess THEN <<Effect("onSuccess", id, "", FALSE)>>
        ELSE <<Effect("router.push", id, h.jobId, h.usedFallback)>>)

\* ---------------------------------------------- handleSubmit: invocations
NoResponse == <<>>

NoRun ==
    [ran |-> FALSE, calls |-> <<>>, primary |-> "pending",
     response |-> NoResponse, usedFallback |-> FALSE, jsonCalled |-> FALSE,
     check |-> "none", effects |-> <<>>, error |-> <<>>]

Call(endpoint, body) == [endpoint |-> endpoint, body |-> body]

\* The invocation as it stands at `await fetch('/api/applications', ...)`.
NewHandler ==
    [pc |-> "primary", form |-> formData, jobId |-> job.id,
     usedFallback |-> FALSE, primary |-> "pending", response |-> NoResponse,
     calls |-> <<Call(PrimaryEndpoint, Payload(job.id, formData))>>]

RemoveAt(seq, i) == SubSeq(seq, 1, i - 1) \o SubSeq(seq, i + 1, Len(seq))

\* The submit Button without its isLoading prop.
ButtonNeverLoading == FALSE

\* isLoading={isSubmitting} on the submit Button
ButtonIsLoading == isSubmitting

\* The Button component does not take a submit while it is loading.
ButtonDisabled(loading) == loading

\* ----------------------------------------------------------- form: actions
FormInit ==
    /\ job \in [id : JobIds]
    /\ onSuccess \in BOOLEAN
    /\ formData = EmptyForm
    /\ errors = NoErrors
    /\ isSubmitting = FALSE
    /\ resumeFileName = <<>>
    /\ handlers = <<>>
    /\ last = NoRun
    /\ nSubmits = 0
    /\ validateResult = TRUE

\* handleChange
HandleChange(name, value) ==
    /\ formData' = [formData EXCEPT ![name] = value]
    /\ errors' = IF name \in DOMAIN errors /\ errors[name].text # ""
                 THEN DeleteKey(errors, name)
                 ELSE errors
    /\ UNCHANGED <<job, onSuccess, isSubmitting, resumeFileName, handlers,
                   last, nSubmits, validateResult>>
    /\ UNCHANGED <<viewerVars, filterVars, cardVars>>

\* handleFileChange, with a file chosen
HandleFileChange(fileName) ==
    /\ formData' = [formData EXCEPT !.resume = fileName]
    /\ resumeFileName' = fileName
    /\ errors' = IF "resume" \in DOMAIN errors /\ errors.resume.text # ""
                 THEN DeleteKey(errors, "resume")
                 ELSE errors
    /\ UNCHANGED <<job, onSuccess, isSubmitting, handlers, last, nSubmits,
                   validateResult>>
    /\ UNCHANGED <<viewerVars, filterVars, cardVars>>

\* The guard on the job id, never taken.
JobIdNeverMissing(j) == FALSE

\* !job.id
JobIdMissingGuard(j) == j.id = ""

\* handleSubmit, from the submit event to its first await (or its return)
HandleSubmit ==
    /\ ~ButtonDisabled(ButtonIsLoading)
    /\ nSubmits < MaxSubmits
    /\ nSubmits' = nSubmits + 1
    /\ last' = NoRun
    /\ LET v == ValidateForm(formData) IN
        /\ validateResult' = v.ok
        /\ IF ~v.ok
           THEN /\ errors' = v.errors
                /\ UNCHANGED <<isSubmitting, handlers>>
           ELSE IF JobIdMissingGuard(job)
           THEN /\ errors' = SetKey(v.errors, "submit", JobIdMissing)
                /\ UNCHANGED <<isSubmitting, handlers>>
           ELSE /\ errors' = v.errors
                /\ isSubmitting' = TRUE
                /\ handlers' = Append(handlers, NewHandler)
    /\ UNCHANGED <<job, onSuccess, formData, resumeFileName>>
    /\ UNCHANGED <<viewerVars, filterVars, cardVars>>

\* The catch and finally blocks, lines 197-205, and the end of the
\* invocation.
Finish(i, run) ==
    /\ errors' = IF run.error # <<>>
                 THEN SetKey(errors, "submit", SubmitMessage(run.error[1]))
                 ELSE errors
    /\ isSubmitting' = FALSE
    /\ handlers' = RemoveAt(handlers, i)
    /\ last' = run
    /\ UNCHANGED <<job, onSuccess, formData, resumeFileName, nSubmits,
                   validateResult>>
    /\ UNCHANGED <<viewerVars, filterVars, cardVars>>

\* The fallback body built from the form's current state.
FallbackBodyLive(h) == Payload(job.id, formData)

\* The body the fallback request carries, lines 139-142.
FallbackBody(h) == Payload(h.jobId, h.form)

\* fetch('/api/applications') resolves with a response
PrimaryResponds(i, resp) ==
    /\ handlers[i].pc = "primary"
    /\ handlers' = [handlers EXCEPT ![i] =
            [@ EXCEPT !.pc = "body", !.primary = "response",
                      !.response = <<resp>>]]
    /\ UNCHANGED <<job, onSuccess, formData, errors, isSubmitting,
                   resumeFileName, last, nSubmits, validateResult>>
    /\ UNCHANGED <<viewerVars, filterVars, cardVars>>

\* fetch('/api/applications') rejects: the catch block calls the fallback
PrimaryFails(i) ==
    /\ handlers[i].pc = "primary"
    /\ handlers' = [handlers EXCEPT ![i] =
            [@ EXCEPT !.pc = "fallback", !.primary = "failed",
                      !.calls = Append(@, Call(FallbackEndpoint,
                                               FallbackBody(handlers[i])))]]
    /\ UNCHANGED <<job, onSuccess, formData, errors, isSubmitting,
                   resumeFileName, last, nSubmits, validateResult>>
    /\ UNCHANGED <<viewerVars, filterVars, cardVars>>

\* fetch('/api/test-application') resolves with a response
FallbackResponds(i, resp) ==
    /\ handlers[i].pc = "fallback"
    /\ handlers' = [handlers EXCEPT ![i] =
            [@ EXCEPT !.pc = "body", !.usedFallback = TRUE,
                      !.response = <<resp>>]]
    /\ UNCHANGED <<job, onSuccess, formData, errors, isSubmitting,
                   resumeFileName, last, nSubmits, validateResult>>
    /\ UNCHANGED <<viewerVars, filterVars, cardVars>>

RunOf(h, result, effects) ==
    [ran |-> TRUE, calls |-> h.calls, primary |-> h.primary,
     response |-> h.response, usedFallback |-> h.usedFallback,
     jsonCalled |-> result.jsonCalled, check |-> result.check,
     effects |-> effects, error |-> result.error]

\* fetch('/api/test-application') rejects: the outer catch takes the error
FallbackFails(i, e) ==
    /\ handlers[i].pc = "fallback"
    /\ Finish(i, RunOf(handlers[i], Thrown("transport", e, FALSE), <<>>))

\* response.text() or response.json() settles and handleSubmit runs to its
\* end
ReadBody(i) ==
    /\ handlers[i].pc = "body"
    /\ LET h == handlers[i]
           result == SubmitterCheck(h.response[1])
       IN  Finish(i, RunOf(h, result,
                  IF result.error = <<>>
                  THEN SuccessEffects(h, result.id[1])
                  ELSE <<>>))

FormNext ==
    \/ \E name \in TextInputs : \E value \in TypedValues(name) :
            HandleChange(name, value)
    \/ \E fileName \in ChosenFiles : HandleFileChange(fileName)
    \/ HandleSubmit
    \/ \E i \in 1..Len(handlers) : \E resp \in WriteResponses :
            PrimaryResponds(i, resp)
    \/ \E i \in 1..Len(handlers) : PrimaryFails(i)
    \/ \E i \in 1..Len(handlers) : \E resp \in WriteResponses :
            FallbackResponds(i, resp)
    \/ \E i \in 1..Len(handlers) : \E e \in TransportErrors :
            FallbackFails(i, e)
    \/ \E i \in 1..Len(handlers) : ReadBody(i)

\* ------------------------------------------------ ApplicationsPage: data
ReadEndpoint == "/api/user/applications"

\* appliedDate is a time of the clock: now, or a week before now
MockApplications ==
    << [id |-> "app1", jobId |-> "1", fullName |-> "John Doe",
        email |-> "john@example.com", phone |-> "1234567890",
        resume |-> "resume.pdf", appliedDate |-> "now",
        status |-> "pending",
        job |-> <<[title |->
                     <<"F", "r", "o", "n", "t", "e", "n", "d", " ", "D", "e", "v", "e", "l",
                       "o", "p", "e", "r">>, company |->
                     <<"T", "e", "c", "h", " ", "C", "o", "r", "p">>,
                   location |->
                     <<"R", "e", "m", "o", "t", "e">>, type |-> "Full-time"]>>],
       [id |-> "app2", jobId |-> "2", fullName |-> "John Doe",
        email |-> "john@example.com", phone |-> "1234567890",
        resume |-> "resume.pdf", appliedDate |-> "weekAgo",
        status |-> "interview",
        job |-> <<[title |->
                     <<"B", "a", "c", "k", "e", "n", "d", " ", "D", "e", "v", "e", "l", "o",
                       "p", "e", "r">>, company |->
                     <<"S", "o", "f", "t", "w", "a", "r", "e", " ", "I", "n", "c">>,
                   location |->
                     <<"N", "e", "w", " ", "Y", "o", "r", "k">>, type |-> "Full-time"]>>] >>

\* A record the backend returns: an accepted application whose job is null.
OtherApplication ==
    [id |-> "a1", jobId |-> "9", fullName |-> "Jane Roe",
     email |-> "jane@example.com", phone |-> "5", resume |-> "cv.pdf",
     appliedDate |-> "weekAgo", status |-> "accepted", job |-> <<>>]

\* The `applications` field of a JSON object: absent, not an array, or an
\* array.
ApplicationsFields ==
    {[present |-> FALSE, isArray |-> FALSE, items |-> <<>>],
     [present |-> TRUE, isArray |-> FALSE, items |-> <<>>]}
    \cup {[present |-> TRUE, isArray |-> TRUE, items |-> l] :
            l \in {<<>>, MockApplications, <<OtherApplication>>}}

ReadBodies ==
    {[kind |-> k, applications |-> [present |-> FALSE, isArray |-> FALSE,
                                    items |-> <<>>]] :
        k \in {"unparsable", "null"}}
    \cup {[kind |-> "object", applications |-> a] : a \in ApplicationsFields}

ReadResponses ==
    [status : Statuses, contentType : ContentTypes, body : ReadBodies]

Tokens == {<<>>, <<"">>, <<"t">>}

\* ------------------------------------- ApplicationsPage: status and filter
UpperCase ==
    <<"A", "B", "C", "D", "E", "F", "G", "H", "I", "J", "K", "L", "M",
      "N", "O", "P", "Q", "R", "S", "T", "U", "V", "W", "X", "Y", "Z">>
LowerCase ==
    <<"a", "b", "c", "d", "e", "f", "g", "h", "i", "j", "k", "l", "m",
      "n", "o", "p", "q", "r", "s", "t", "u", "v", "w", "x", "y", "z">>

ToLowerChar(c) ==
    IF \E n \in 1..Len(UpperCase) : UpperCase[n] = c
    THEN LowerCase[CHOOSE n \in 1..Len(UpperCase) : UpperCase[n] = c]
    ELSE c

\* String.prototype.toLowerCase
ToLowerCase(s) == [n \in 1..Len(s) |-> ToLowerChar(s[n])]

\* String.prototype.includes
Includes(s, q) ==
    \E k \in 0..(Len(s) - Len(q)) : SubSeq(s, k + 1, k + Len(q)) = q

\* mapStatus with a default that passes the backend's value through.
MapStatusPassThrough(status) ==
    CASE status \in {"pending", "reviewed"} -> "applied"
      [] status = "accepted" -> "offer"
      [] OTHER -> status

\* mapStatus
MapStatus(status) ==
    CASE status \in {"pending", "reviewed"} -> "applied"
      [] status = "interview" -> "interview"
      [] status = "rejected" -> "rejected"
      [] status = "accepted" -> "offer"
      [] OTHER -> "applied"

\* app.job?.title || '' (and company, location)
JobField(app, field) ==
    IF app.job = <<>> THEN <<>> ELSE app.job[1][field]

SearchedFields == {"title", "company", "location"}

\* The filter callback searching the fields as they are written.
FilterKeepsCaseSensitive(app, filter, query) ==
    IF filter # "all" /\ MapStatus(app.status) # filter THEN FALSE
    ELSE IF query # <<>>
    THEN \E f \in SearchedFields :
            Includes(JobField(app, f), ToLowerCase(query))
    ELSE TRUE

\* The callback of applications.filter, lines 177-197
FilterKeeps(app, filter, query) ==
    IF filter # "all" /\ MapStatus(app.status) # filter THEN FALSE
    ELSE IF query # <<>>
    THEN \E f \in SearchedFields :
            Includes(ToLowerCase(JobField(app, f)), ToLowerCase(query))
    ELSE TRUE

\* Array.prototype.filter with that callback
RECURSIVE ArrayFilter(_, _, _)
ArrayFilter(apps, filter, query) ==
    IF apps = <<>> THEN <<>>
    ELSE (IF FilterKeeps(Head(apps), filter, query)
          THEN <<Head(apps)>> ELSE <<>>)
         \o ArrayFilter(Tail(apps), filter, query)

\* filteredApplications, as a render computes it
FilteredApplications == ArrayFilter(applications, activeFilter, searchQuery)

UnknownJob ==
    <<"U", "n", "k", "n", "o", "w", "n", " ", "J", "o", "b">>
UnknownCompany ==
    <<"U", "n", "k", "n", "o", "w", "n", " ", "C", "o", "m", "p", "a",
      "n", "y">>
UnknownLocation ==
    <<"U", "n", "k", "n", "o", "w", "n", " ", "L", "o", "c", "a", "t",
      "i", "o", "n">>

\* x || placeholder, for a string x
OrElse(x, placeholder) == IF x = <<>> THEN placeholder ELSE x

\* new Date(appliedDate).toLocaleDateString()
LocaleDateString(date) == [localeDateOf |-> date]

\* formatApplicationsForTable
FormatApplicationsForTable(apps) ==
    [n \in 1..Len(apps) |->
        [id |-> apps[n].id,
         title |-> OrElse(JobField(apps[n], "title"), UnknownJob),
         company |-> OrElse(JobField(apps[n], "company"), UnknownCompany),
         location |-> OrElse(JobField(apps[n], "location"), UnknownLocation),
         status |-> MapStatus(apps[n].status),
         date |-> LocaleDateString(apps[n].appliedDate)]]

\* tableData
TableData == FormatApplicationsForTable(FilteredApplications)

Filters == {"all", "applied", "interview", "offer", "rejected"}
QueryChars == {"a", "B"}
Queries == StringsUpTo(QueryChars, MaxQueryLen)

\* Values of `status` a backend sends: its vocabulary and one outside it.
StatusValues ==
    {"pending", "reviewed", "interview", "rejected", "accepted", "archived"}

\* The job of a record: null, or one with short fields.
RecordJobs ==
    {<<>>,
     <<[title |-> <<"A", "b">>, company |-> <<"c">>, location |-> <<"B">>,
        type |-> "Full-time"]>>,
     <<[title |-> <<"b">>, company |-> <<"a">>, location |-> <<>>,
        type |-> "Contract"]>>}

Records ==
    {[id |-> "r", jobId |-> "3", fullName |-> "Jane Roe",
      email |-> "jane@example.com", phone |-> "5", resume |-> "cv.pdf",
      appliedDate |-> "weekAgo", status |-> st, job |-> j] :
        st \in StatusValues, j \in RecordJobs}

RecordLists == UNION {[1..k -> Records] : k \in 0..MaxApps}

FailedToLoad ==
    Msg("Failed to load your applications. Please try again later.")
FailedToFetch(status) == StatusMsg("Failed to fetch applications", status)
NonJsonRead == Msg("Server returned non-JSON response")
JsonSyntaxError == Msg("SyntaxError")
NullDataTypeError == Msg("TypeError")

\* The checks with the body parsed before the content type is looked at.
ViewerCheckParseFirst(resp) ==
    IF ~Ok(resp.status) THEN "status"
    ELSE IF resp.body.kind = "unparsable" THEN "parse"
    ELSE IF ~IsJsonContentType(resp.contentType) THEN "contentType"
    ELSE "none"

\* Lines 98-110 of fetchApplications: the first check the response fails.
ViewerCheck(resp) ==
    IF ~Ok(resp.status) THEN "status"
    ELSE IF ~IsJsonContentType(resp.contentType) THEN "contentType"
    ELSE IF resp.body.kind = "unparsable" THEN "parse"
    ELSE "none"

\* The guard on the token, never taken.
TokenNeverMissing(t) == FALSE

\* !token
TokenMissing(t) == t = <<>> \/ t[1] = ""

\* --------------------------------------------- ApplicationsPage: actions
\* ${token} of the Authorization header
Bearer(t) == IF t = <<>> THEN "null" ELSE t[1]

ViewerInit ==
    /\ authenticated \in BOOLEAN
    /\ token \in Tokens
    /\ applications = <<>>
    /\ isLoading = TRUE
    /\ error = <<>>
    /\ vpc = "mount"
    /\ vRequests = <<>>
    /\ vSettled = <<>>
    /\ vPushed = <<>>
    /\ vLogged = <<>>
    /\ activeFilter = "all"
    /\ searchQuery = <<>>

\* The effect, lines 68-94 and 165-174: the redirect of a user who is not
\* authenticated, or fetchApplications up to its first await (or its end)
ViewerMount ==
    /\ vpc = "mount"
    /\ IF ~authenticated
       THEN /\ vPushed' = <<"/login">>
            /\ vpc' = "redirected"
            /\ UNCHANGED <<isLoading, error, vRequests>>
       ELSE IF TokenMissing(token)
       THEN /\ error' = <<FailedToLoad>>
            /\ isLoading' = FALSE
            /\ vpc' = "done"
            /\ UNCHANGED <<vPushed, vRequests>>
       ELSE /\ isLoading' = TRUE
            /\ vRequests' = Append(vRequests,
                    [endpoint |-> ReadEndpoint, bearer |-> Bearer(token)])
            /\ vpc' = "fetching"
            /\ UNCHANGED <<vPushed, error>>
    /\ UNCHANGED <<authenticated, token, applications, vSettled, vLogged>>
    /\ UNCHANGED <<formVars, filterVars, cardVars>>

\* The inner catch and the finally block, lines 119-170
ViewerFallback(e) ==
    /\ vLogged' = Append(vLogged, e)
    /\ applications' = MockApplications
    /\ isLoading' = FALSE
    /\ vpc' = "done"
    /\ UNCHANGED <<authenticated, token, error, vRequests, vPushed>>
    /\ UNCHANGED <<formVars, filterVars, cardVars>>

\* fetch('/api/user/applications') rejects
ViewerFetchFails(e) ==
    /\ vpc = "fetching"
    /\ vSettled' = <<[failed |-> TRUE, error |-> e]>>
    /\ ViewerFallback(e)

\* fetch('/api/user/applications') resolves with a response
ViewerFetchResponds(resp) ==
    /\ vpc = "fetching"
    /\ vSettled' = <<[failed |-> FALSE, response |-> resp]>>
    /\ CASE ViewerCheck(resp) = "status" ->
                ViewerFallback(FailedToFetch(resp.status))
         [] ViewerCheck(resp) = "contentType" ->
                ViewerFallback(NonJsonRead)
         [] OTHER ->
                /\ vpc' = "json"
                /\ UNCHANGED <<authenticated, token, applications,
                               isLoading, error, vRequests, vPushed,
                               vLogged>>
                /\ UNCHANGED <<formVars, filterVars, cardVars>>

\* response.json() settles, lines 110-118
ViewerJsonSettles ==
    /\ vpc = "json"
    /\ LET resp == vSettled[1].response
           field == resp.body.applications
       IN  CASE ViewerCheck(resp) = "parse" ->
                    ViewerFallback(JsonSyntaxError)
             [] resp.body.kind = "null" ->
                    ViewerFallback(NullDataTypeError)
             [] OTHER ->
                    /\ applications' =
                          IF field.present /\ field.isArray
                          THEN field.items ELSE <<>>
                    /\ isLoading' = FALSE
                    /\ vpc' = "done"
                    /\ UNCHANGED <<authenticated, token, error, vRequests,
                                   vPushed, vLogged>>
                    /\ UNCHANGED <<formVars, filterVars, cardVars>>
    /\ UNCHANGED vSettled

\* onClick={() => setActiveFilter(...)} of a filter button
SetActiveFilter(filter) ==
    /\ vpc # "redirected"
    /\ activeFilter' = filter
    /\ UNCHANGED <<searchQuery, viewerVars, formVars, cardVars>>

\* onChange={(e) => setSearchQuery(e.target.value)} of the search input
SetSearchQuery(query) ==
    /\ vpc # "redirected"
    /\ searchQuery' = query
    /\ UNCHANGED <<activeFilter, viewerVars, formVars, cardVars>>

FilterNext ==
    \/ \E filter \in Filters : SetActiveFilter(filter)
    \/ \E query \in Queries : SetSearchQuery(query)

ViewerNext ==
    \/ ViewerMount
    \/ \E e \in TransportErrors : ViewerFetchFails(e)
    \/ \E resp \in ReadResponses : ViewerFetchResponds(resp)
    \/ ViewerJsonSettles
    \/ FilterNext

\* ------------------------------------------------------------- JobCard
SavedJobsEndpoint == "/api/user/saved-jobs"
CardJobId == "j1"
OtherJobId == "j2"

\* The saved jobs the backend lists for the user.
SavedJobsList(store) ==
    <<[jobId |-> OtherJobId]>>
        \o (IF store THEN <<[jobId |-> CardJobId]>> ELSE <<>>)

\* savedJobs.savedJobs.some(savedJob => savedJob.jobId === job.id)
SomeJobIs(list, id) == \E n \in 1..Len(list) : list[n].jobId = id

NoCheck == [state |-> "none", success |-> FALSE, savedJobs |-> <<>>]
NoToggle == [inFlight |-> FALSE, remove |-> FALSE]

\* A card that is not rendered.
CardIdle ==
    /\ isSaved = FALSE
    /\ isSaving = FALSE
    /\ isUserLoggedIn = FALSE
    /\ loggedIn = FALSE
    /\ savedStore = FALSE
    /\ location = <<>>
    /\ cLogged = <<>>
    /\ cpc = "absent"
    /\ savedCheck = NoCheck
    /\ toggle = NoToggle
    /\ nToggles = 0
    /\ lastToggle = <<>>

\* useState, lines 28-30, before the effect has run
CardInit ==
    /\ isSaved = FALSE
    /\ isSaving = FALSE
    /\ isUserLoggedIn = FALSE
    /\ loggedIn \in BOOLEAN
    /\ savedStore \in BOOLEAN
    /\ location = <<>>
    /\ cLogged = <<>>
    /\ cpc = "rendered"
    /\ savedCheck = NoCheck
    /\ toggle = NoToggle
    /\ nToggles = 0
    /\ lastToggle = <<>>

\* The effect, lines 32-58, up to the fetch
CardMount ==
    /\ cpc = "rendered"
    /\ cpc' = "mounted"
    /\ isUserLoggedIn' = loggedIn
    /\ savedCheck' = IF loggedIn THEN [NoCheck EXCEPT !.state = "sent"]
                               ELSE NoCheck
    /\ UNCHANGED <<isSaved, isSaving, loggedIn, savedStore, location, cLogged,
                   toggle, nToggles, lastToggle>>
    /\ UNCHANGED <<formVars, viewerVars, filterVars>>

\* The backend answers the check from the saved jobs it holds at that time.
CheckServed(success, listed) ==
    /\ savedCheck.state = "sent"
    /\ savedCheck' = [state |-> "served", success |-> success,
                 savedJobs |-> IF listed THEN <<SavedJobsList(savedStore)>>
                                         ELSE <<>>]
    /\ UNCHANGED <<isSaved, isSaving, isUserLoggedIn, loggedIn, savedStore,
                   location, cLogged, cpc, toggle, nToggles, lastToggle>>
    /\ UNCHANGED <<formVars, viewerVars, filterVars>>

\* checkIfJobIsSaved after its await, lines 47-50
CheckResponds ==
    /\ savedCheck.state = "served"
    /\ savedCheck' = [savedCheck EXCEPT !.state = "done"]
    /\ isSaved' = IF savedCheck.success /\ savedCheck.savedJobs # <<>>
                  THEN SomeJobIs(savedCheck.savedJobs[1], CardJobId)
                  ELSE isSaved
    /\ UNCHANGED <<isSaving, isUserLoggedIn, loggedIn, savedStore, location,
                   cLogged, cpc, toggle, nToggles, lastToggle>>
    /\ UNCHANGED <<formVars, viewerVars, filterVars>>

\* fetch or res.json() rejects: the catch of lines 51-53
CheckFails ==
    /\ savedCheck.state \in {"sent", "served"}
    /\ savedCheck' = [NoCheck EXCEPT !.state = "done"]
    /\ cLogged' = Append(cLogged, "Error checking if job is saved:")
    /\ UNCHANGED <<isSaved, isSaving, isUserLoggedIn, loggedIn, savedStore,
                   location, cpc, toggle, nToggles, lastToggle>>
    /\ UNCHANGED <<formVars, viewerVars, filterVars>>

\* isLoading={isSaving} of the save button: no click while a toggle runs
SaveButtonLoading == isSaving

\* handleSaveJob up to its await, lines 60-81
HandleSaveJob ==
    /\ cpc = "mounted"
    /\ location = <<>>
    /\ ~SaveButtonLoading
    /\ nToggles < MaxToggles
    /\ nToggles' = nToggles + 1
    /\ IF ~isUserLoggedIn
       THEN /\ location' = <<"/login">>
            /\ UNCHANGED <<isSaving, toggle, lastToggle>>
       ELSE /\ isSaving' = TRUE
            /\ toggle' = [inFlight |-> TRUE, remove |-> isSaved]
            /\ lastToggle' = <<>>
            /\ UNCHANGED location
    /\ UNCHANGED <<isSaved, isUserLoggedIn, loggedIn, savedStore, cLogged, cpc,
                   savedCheck>>
    /\ UNCHANGED <<formVars, viewerVars, filterVars>>

\* removeSavedJob / saveJob resolves; lines 66-69, 79-81 and the finally
ToggleSettles(success) ==
    /\ toggle.inFlight
    /\ toggle' = NoToggle
    /\ isSaving' = FALSE
    /\ IF success
       THEN /\ isSaved' = ~toggle.remove
            /\ savedStore' = ~toggle.remove
            /\ lastToggle' = <<~toggle.remove>>
       ELSE UNCHANGED <<isSaved, savedStore, lastToggle>>
    /\ UNCHANGED <<isUserLoggedIn, loggedIn, location, cLogged, cpc, savedCheck,
                   nToggles>>
    /\ UNCHANGED <<formVars, viewerVars, filterVars>>

\* removeSavedJob / saveJob rejects: the catch of lines 83-85 and the finally
ToggleThrows ==
    /\ toggle.inFlight
    /\ toggle' = NoToggle
    /\ isSaving' = FALSE
    /\ cLogged' = Append(cLogged, "Error saving/removing job:")
    /\ UNCHANGED <<isSaved, isUserLoggedIn, loggedIn, savedStore, location,
                   cpc, savedCheck, nToggles, lastToggle>>
    /\ UNCHANGED <<formVars, viewerVars, filterVars>>

CardNext ==
    \/ CardMount
    \/ \E success \in BOOLEAN, listed \in BOOLEAN : CheckServed(success, listed)
    \/ CheckResponds
    \/ CheckFails
    \/ HandleSaveJob
    \/ \E success \in BOOLEAN : ToggleSettles(success)
    \/ ToggleThrows

\* ---------------------------------------------------------- specifications
\* A page that stays as it was mounted, without credential.
ViewerIdle ==
    /\ authenticated = FALSE
    /\ token = <<>>
    /\ applications = <<>>
    /\ isLoading = TRUE
    /\ error = <<>>
    /\ vpc = "mount"
    /\ vRequests = <<>>
    /\ vSettled = <<>>
    /\ vPushed = <<>>
    /\ vLogged = <<>>
    /\ activeFilter = "all"
    /\ searchQuery = <<>>

\* A form that stays as it was constructed.
FormIdle ==
    /\ job = [id |-> "j1"]
    /\ onSuccess = FALSE
    /\ formData = EmptyForm
    /\ errors = NoErrors
    /\ isSubmitting = FALSE
    /\ resumeFileName = <<>>
    /\ handlers = <<>>
    /\ last = NoRun
    /\ nSubmits = 0
    /\ validateResult = TRUE

\* The application form
Init == FormInit /\ ViewerIdle /\ CardIdle
Next == FormNext
Spec == Init /\ [][Next]_vars

\* The applications page
InitViewer == ViewerInit /\ FormIdle /\ CardIdle
NextViewer == ViewerNext
SpecViewer == InitViewer /\ [][NextViewer]_vars

\* The page after a read that returned a list of records
FilterInit ==
    /\ FormIdle
    /\ CardIdle
    /\ authenticated = TRUE
    /\ token = <<"t">>
    /\ applications \in RecordLists
    /\ isLoading = FALSE
    /\ error = <<>>
    /\ vpc = "done"
    /\ vRequests = <<[endpoint |-> ReadEndpoint, bearer |-> "t"]>>
    /\ vSettled =
          <<[failed |-> FALSE,
             response |->
                [status |-> 201,
                 contentType |-> <<<<"application/json">>>>,
                 body |-> [kind |-> "object",
                           applications |->
                              [present |-> TRUE, isArray |-> TRUE,
                               items |-> applications]]]]>>
    /\ vPushed = <<>>
    /\ vLogged = <<>>
    /\ activeFilter = "all"
    /\ searchQuery = <<>>

\* Filtering and status mapping on bounded lists of records
SpecFilter == FilterInit /\ [][FilterNext]_vars

\* A job card
InitJobCard == CardInit /\ FormIdle /\ ViewerIdle
SpecJobCard == InitJobCard /\ [][CardNext]_vars

\* Every network call eventually returns or fails, and a body that is being
\* read is eventually read.
PrimarySettles ==
    \E i \in 1..Len(handlers) :
        \/ \E resp \in WriteResponses : PrimaryResponds(i, resp)
        \/ PrimaryFails(i)
FallbackSettles ==
    \E i \in 1..Len(handlers) :
        \/ \E resp \in WriteResponses : FallbackResponds(i, resp)
        \/ \E e \in TransportErrors : FallbackFails(i, e)
BodySettles == \E i \in 1..Len(handlers) : ReadBody(i)

FairSpec ==
    /\ Spec
    /\ WF_vars(PrimarySettles)
    /\ WF_vars(FallbackSettles)
    /\ WF_vars(BodySettles)

\* ------------------------------------------- validateForm on bounded inputs
ValidateInit ==
    /\ ViewerIdle
    /\ CardIdle
    /\ job = [id |-> "j1"]
    /\ onSuccess = FALSE
    /\ formData \in
          [fullName : StringsUpTo(NameChars, MaxNameLen),
           email : StringsUpTo(EmailChars, MaxEmailLen),
           phone : StringsUpTo(NameChars, MaxPhoneLen),
           resume : {<<>>} \cup ChosenFiles,
           coverLetter : TypedValues("coverLetter")]
    /\ errors = NoErrors
    /\ isSubmitting = FALSE
    /\ resumeFileName = formData.resume
    /\ handlers = <<>>
    /\ last = NoRun
    /\ nSubmits = 0
    /\ validateResult = TRUE

\* validateForm, called once on the form's values
ValidateFormCall ==
    /\ nSubmits = 0
    /\ nSubmits' = 1
    /\ errors' = ValidateForm(formData).errors
    /\ validateResult' = ValidateForm(formData).ok
    /\ UNCHANGED <<job, onSuccess, formData, isSubmitting, resumeFileName,
                   handlers, last>>
    /\ UNCHANGED <<viewerVars, filterVars, cardVars>>

SpecValidate == ValidateInit /\ [][ValidateFormCall]_vars

\* ================================================================== claims
RequiredFields == {"fullName", "email", "phone", "resume"}

\* s is empty or consists of white space only
Blank(s) == \A n \in 1..Len(s) : s[n] = Space

\* s contains local@domain.tld: a non-space character, '@', one or more
\* non-space characters, '.', a non-space character
HasLocalAtDomainTld(s) ==
    \E a, d \in 1..Len(s) :
        /\ a >= 2 /\ s[a - 1] # Space /\ s[a] = "@"
        /\ d >= a + 2 /\ s[d] = "."
        /\ \A n \in (a + 1)..(d - 1) : s[n] # Space
        /\ d < Len(s) /\ s[d + 1] # Space

\* The message a field's rule asks for, or none.
ExpectedMessage(f, form) ==
    CASE f = "fullName" ->
            IF Blank(form.fullName) THEN <<FullNameRequired>> ELSE <<>>
      [] f = "email" ->
            IF Blank(form.email) THEN <<EmailRequired>>
            ELSE IF ~HasLocalAtDomainTld(form.email) THEN <<EmailInvalid>>
            ELSE <<>>
      [] f = "phone" ->
            IF Blank(form.phone) THEN <<PhoneRequired>> ELSE <<>>
      [] f = "resume" ->
            IF form.resume = <<>> THEN <<ResumeRequired>> ELSE <<>>

FailingFields(form) ==
    {f \in RequiredFields : ExpectedMessage(f, form) # <<>>}

\* The run signalled completion: onSuccess was called or the router pushed
\* the confirmation view.
Completed(run) ==
    \E n \in 1..Len(run.effects) :
        run.effects[n].kind \in {"onSuccess", "router.push"}

SubmitErrorSet == "submit" \in DOMAIN errors /\ errors["submit"].text # ""

\* The body holds an `application` object with a non-empty `id`.
BodyHasApplicationWithId(body) ==
    body \in {b \in WriteBodies :
                /\ b.kind = "object"
                /\ b.application \in
                      {<<[id |-> <<i>>]>> : i \in {"x1"}}}

JsonContentTypes ==
    {<<<<"application/json">>>>, <<<<"application/json", "; charset=utf-8">>>>}

\* The calls of one submission: the primary endpoint first and once; the
\* fallback, once and with the same body, exactly when the primary call
\* raised a transport failure.
CallsAsClaimed(calls, primary) ==
    /\ Len(calls) \in 1..2
    /\ calls[1].endpoint = PrimaryEndpoint
    /\ (Len(calls) = 2) <=> (primary = "failed")
    /\ Len(calls) = 2 =>
          /\ calls[2].endpoint = FallbackEndpoint
          /\ calls[2].body = calls[1].body

\* C1: within one submission the fallback endpoint is called if and only if
\* the primary call raised a transport failure, never after a response of
\* the primary call; each endpoint is called at most once, the primary one
\* first, and the fallback call carries the primary call's payload.
C1_FallbackOnlyOnTransportFailure ==
    /\ \A i \in 1..Len(handlers) :
          CallsAsClaimed(handlers[i].calls, handlers[i].primary)
    /\ last.ran => CallsAsClaimed(last.calls, last.primary)

\* A fallback call is outstanding and the user has edited the form since
\* the submit event.
C1_Witness ==
    \E i \in 1..Len(handlers) :
        /\ handlers[i].pc = "fallback"
        /\ handlers[i].form # formData

\* C2: a submission signals completion only when the response's body holds
\* an `application` object with a non-empty `id`; for every other body,
\* whatever the status, nothing is signalled and errors.submit is set.
C2_CompletionOnlyWithApplicationId ==
    (last.ran /\ last.response # NoResponse) =>
        LET body == last.response[1].body IN
        /\ Completed(last) => BodyHasApplicationWithId(body)
        /\ ~BodyHasApplicationWithId(body) =>
              (last.effects = <<>> /\ SubmitErrorSet)

\* A 2xx response without an id in its application ended in an error.
C2_Witness ==
    /\ last.ran /\ last.response # NoResponse
    /\ Ok(last.response[1].status)
    /\ last.response[1].body.application = <<[id |-> <<"">>]>>
    /\ last.check = "shape"
    /\ SubmitErrorSet

\* The number of network requests that have not settled.
Outstanding ==
    Cardinality({i \in 1..Len(handlers) :
                    handlers[i].pc \in {"primary", "fallback"}})

C4_ValidateReportsExactlyFailingFields ==
    nSubmits = 1 =>
        /\ DOMAIN errors = FailingFields(formData)
        /\ \A f \in DOMAIN errors :
              <<errors[f]>> = ExpectedMessage(f, formData)
        /\ validateResult = (FailingFields(formData) = {})

\* validateForm reported several failing fields together, one of them an
\* email that is not blank but does not match.
C4_Witness ==
    /\ nSubmits = 1
    /\ DOMAIN errors = {"fullName", "email", "resume"}
    /\ errors["email"] = EmailInvalid
    /\ formData.fullName = <<Space, Space>>
    /\ formData.coverLetter = <<>>
    /\ ~validateResult

\* C5: a submit event received when validation fails or job.id is missing
\* starts no network call and does not set isSubmitting; with job.id
\* missing it sets errors.submit.
C5_NoNetworkWithoutValidFormAndJobId ==
    [][(nSubmits' # nSubmits
          /\ (FailingFields(formData) # {} \/ job.id = ""))
       => /\ handlers' = handlers
          /\ isSubmitting' = isSubmitting
          /\ (FailingFields(formData) = {} =>
                ("submit" \in DOMAIN errors'
                    /\ errors'["submit"] = JobIdMissing))]_vars

\* A valid form was submitted for a job without id: the error is set and
\* nothing is in flight.
C5_Witness ==
    /\ nSubmits >= 1
    /\ FailingFields(formData) = {}
    /\ job.id = ""
    /\ "submit" \in DOMAIN errors /\ errors["submit"] = JobIdMissing
    /\ handlers = <<>> /\ ~isSubmitting /\ ~last.ran

\* The read failed: the fetch was rejected, or the response has a
\* non-success status, no JSON content type, or a body that is not JSON.
ReadFailed ==
    /\ vSettled # <<>>
    /\ \/ vSettled[1].failed
       \/ /\ ~vSettled[1].failed
          /\ LET r == vSettled[1].response IN
                \/ r.status \notin 200..299
                \/ r.contentType \notin JsonContentTypes
                \/ r.body.kind = "unparsable"

\* C6: after any failure of the read the list is the non-empty fallback
\* dataset and the page's state records the failure: its error is set, so
\* that the state differs from the one a successful read of the same
\* records leaves.
C6_FailedReadIsRecorded ==
    (vpc = "done" /\ ReadFailed) =>
        /\ applications = MockApplications
        /\ applications # <<>>
        /\ error # <<>>

\* The first of the three checks a finished submission's response failed.
SubmitterFirstFailing ==
    IF last.check \in {"contentType", "parse", "status"}
    THEN last.check ELSE "none"

\* C7 as stated: the page and the form classify every response by the same
\* first failing check.
C7_SameFirstFailingCheck ==
    (last.ran /\ last.response # NoResponse) =>
        SubmitterFirstFailing = ViewerCheck(last.response[1])

\* C7: the page checks the status, then the content type, then parses; the
\* form checks the content type, then parses, then checks the status.  They
\* name the same first failing check for every response with a success
\* status; for a non-success status the page names the status check, and
\* the form names the content type or the parse when one of them fails.
C7_SameCheckForSuccessStatus ==
    (last.ran /\ last.response # NoResponse) =>
        LET r == last.response[1]
            bad == IF r.contentType \notin JsonContentTypes
                   THEN "contentType"
                   ELSE IF r.body.kind = "unparsable" THEN "parse"
                   ELSE "none"
        IN  /\ r.status \in 200..299 =>
                /\ SubmitterFirstFailing = bad
                /\ ViewerCheck(r) = bad
            /\ r.status \notin 200..299 =>
                /\ ViewerCheck(r) = "status"
                /\ SubmitterFirstFailing =
                      IF bad = "none" THEN "status" ELSE bad

\* The form classified a 500 response without content type by its content
\* type, the page classifies it by its status.
C7_Witness ==
    /\ last.ran /\ last.response # NoResponse
    /\ last.response[1].status = 500
    /\ last.response[1].contentType = <<>>
    /\ SubmitterFirstFailing = "contentType"
    /\ ViewerCheck(last.response[1]) = "status"

NoCredential == ~authenticated \/ token \in {<<>>, <<"">>}

\* C10 as stated: without credential the page sends no request and ends
\* with its error set and its loading flag cleared.
C10_NoCredentialEndsInError ==
    (NoCredential /\ vpc \in {"done", "redirected"}) =>
        /\ vRequests = <<>>
        /\ error # <<>>
        /\ ~isLoading

\* C10: without credential the page never sends a request.  A user who is
\* not authenticated is redirected to /login, with no error set and the
\* loading flag still set; an authenticated user without token ends with
\* the error set and the loading flag cleared.
C10_NoCredentialNoRequest ==
    NoCredential =>
        /\ vRequests = <<>>
        /\ vpc \in {"mount", "done", "redirected"}
        /\ (vpc = "redirected") <=> (vPushed = <<"/login">>)
        /\ (vpc # "mount" /\ ~authenticated) =>
              (vpc = "redirected" /\ error = <<>> /\ isLoading)
        /\ (vpc # "mount" /\ authenticated) =>
              (vpc = "done" /\ error = <<FailedToLoad>> /\ ~isLoading
                /\ applications = <<>>)

\* An authenticated user whose token is the empty string has been shown the
\* error.
C10_Witness ==
    /\ authenticated /\ token = <<"">>
    /\ vpc = "done"
    /\ error = <<FailedToLoad>>
    /\ ~isLoading
    /\ vRequests = <<>>

\* The positions, in the effects of a finished submission, of the
\* test-mode notice and of the signals of completion.
NoticesOf(run) ==
    {n \in 1..Len(run.effects) : run.effects[n].kind = "alert"}
CompletionsOf(run) ==
    {n \in 1..Len(run.effects) :
        run.effects[n].kind \in {"onSuccess", "router.push"}}

\* The submission called the fallback endpoint and took its response.
FallbackWasUsed(run) ==
    /\ \E n \in 1..Len(run.calls) : run.calls[n].endpoint = FallbackEndpoint
    /\ run.response # NoResponse

\* C11: on a fully successful submission the test-mode notice is shown
\* exactly when the fallback endpoint was used, and before completion;
\* completion is signalled exactly once, with the id the backend returned,
\* by onSuccess when it was supplied and otherwise by the navigation to the
\* confirmation view of the job, with testMode exactly when the fallback
\* was used.
C11_NoticeThenCompletionOnce ==
    (last.ran /\ last.error = <<>>) =>
        LET id == last.response[1].body.application[1].id[1] IN
        /\ Cardinality(NoticesOf(last)) =
              (IF FallbackWasUsed(last) THEN 1 ELSE 0)
        /\ Cardinality(CompletionsOf(last)) = 1
        /\ \A a \in NoticesOf(last) : \A c \in CompletionsOf(last) : a < c
        /\ \A c \in CompletionsOf(last) :
              /\ last.effects[c].id = id
              /\ (last.effects[c].kind = "onSuccess") <=> onSuccess
              /\ last.effects[c].kind = "router.push" =>
                    /\ last.effects[c].jobId = job.id
                    /\ last.effects[c].testMode = FallbackWasUsed(last)

\* The primary call failed, the fallback answered 201 with an application
\* id, and the form without onSuccess showed the notice and then navigated
\* in test mode.
C11_Witness ==
    /\ last.ran /\ last.error = <<>>
    /\ ~onSuccess
    /\ last.primary = "failed"
    /\ last.response[1].status = 201
    /\ Len(last.effects) = 2
    /\ last.effects[1].kind = "alert"
    /\ last.effects[2] = Effect("router.push", "x1", "j1", TRUE)


\* ----------------------------------------------------------------- C12
\* Two characters that are the same letter, whatever their case.
SameLetter(c, d) ==
    \/ c = d
    \/ \E n \in 1..Len(UpperCase) : {c, d} = {UpperCase[n], LowerCase[n]}

\* q occurs in s when case is ignored.
CaseInsensitiveSubstring(q, s) ==
    \E k \in 0..(Len(s) - Len(q)) :
        \A n \in 1..Len(q) : SameLetter(s[k + n], q[n])

\* The UI status the claims give for a backend status.
MappedUIStatus(status) ==
    IF status \in {"pending", "reviewed"} THEN "applied"
    ELSE IF status = "interview" THEN "interview"
    ELSE IF status = "rejected" THEN "rejected"
    ELSE IF status = "accepted" THEN "offer"
    ELSE "applied"

\* The job title, company and location of a record; a missing job has none.
SearchableTexts(app) ==
    IF app.job = <<>> THEN {}
    ELSE {app.job[1].title, app.job[1].company, app.job[1].location}

ShouldBeShown(app) ==
    /\ activeFilter = "all" \/ activeFilter = MappedUIStatus(app.status)
    /\ \/ searchQuery = <<>>
       \/ \E text \in SearchableTexts(app) :
             CaseInsensitiveSubstring(searchQuery, text)

\* C12: for every state of the applications page, a record is shown exactly when
\* (a) the active filter is "all" or equals the record's mapped UI status, and
\* (b) the search query is empty or is a case-insensitive substring of the
\* record's job title, company or location; the shown records keep their order,
\* and filtering the shown records again with the same filter and query leaves
\* them as they are.
C12_ShownIffFilterAndQueryMatch ==
    /\ FilteredApplications = SelectSeq(applications, ShouldBeShown)
    /\ ArrayFilter(FilteredApplications, activeFilter, searchQuery)
         = FilteredApplications

\* A filter and a query are set; of two records the first passes both (its
\* status is outside the backend vocabulary and its title matches the query
\* only when case is ignored) and the second fails the status filter.
C12_Witness ==
    /\ vpc = "done"
    /\ activeFilter = "applied"
    /\ searchQuery = <<"B">>
    /\ Len(applications) = 2
    /\ applications[1].status = "archived"
    /\ applications[1].job # <<>>
    /\ applications[1].job[1].title = <<"b">>
    /\ applications[2].status = "accepted"
    /\ FilteredApplications = <<applications[1]>>


\* ----------------------------------------------------------------- C13
UIStatuses == {"applied", "interview", "rejected", "offer"}

\* C13: the status of every table row is the mapping of its record's backend
\* status: pending and reviewed give applied, interview gives interview,
\* rejected gives rejected, accepted gives offer and any other value gives
\* applied; the result is always one of applied, interview, rejected, offer.
C13_MapStatusTable ==
    LET rows == FormatApplicationsForTable(applications) IN
    /\ Len(rows) = Len(applications)
    /\ \A n \in 1..Len(applications) :
          LET status == applications[n].status IN
          /\ rows[n].status \in UIStatuses
          /\ status \in {"pending", "reviewed"} => rows[n].status = "applied"
          /\ status = "interview" => rows[n].status = "interview"
          /\ status = "rejected" => rows[n].status = "rejected"
          /\ status = "accepted" => rows[n].status = "offer"
          /\ status \notin {"pending", "reviewed", "interview", "rejected",
                             "accepted"}
                => rows[n].status = "applied"

\* The "applied" filter is on over a record whose status is outside the
\* backend vocabulary and an accepted one: the table shows the first as applied.
C13_Witness ==
    /\ vpc = "done"
    /\ Len(applications) = 2
    /\ applications[1].status = "archived"
    /\ applications[2].status = "accepted"
    /\ activeFilter = "applied"
    /\ Len(TableData) = 1
    /\ TableData[1].status = "applied"
    /\ FormatApplicationsForTable(applications)[2].status = "offer"


\* ----------------------------------------------------------------- C14
\* C14: once a save or remove started by handleSaveJob has completed
\* successfully, isSaved equals its outcome (TRUE after a save, FALSE after a
\* remove) until the next toggle starts; in particular the response of the
\* mount-time check does not overwrite it.
C14_ToggleOutcomeStands ==
    lastToggle # <<>> => isSaved = lastToggle[1]

====
